---- MODULE Spec2Model ----
(***************************************************************************)
(* Request pipeline guards of src/utils/Middlewares.js: validateSchema,    *)
(* errorMiddleware, verifyJWT, isUser, isVerified, verificationMailSent    *)
(* and rateLimiting, run by the host framework one after the other on a    *)
(* request context.                                                        *)
(*                                                                         *)
(* JavaScript values are records tagged by their type in field t.  A       *)
(* string is a sequence of chunks (<<>> is the empty string), so that      *)
(* truthiness, split(" "), toLowerCase() and template literals are         *)
(* computed and not assumed.  An object is a record of its own             *)
(* properties; a property it does not have reads as undefined.             *)
(***************************************************************************)
EXTENDS Integers, Sequences, FiniteSets, TLC

VARIABLES
    req,      \* the request context: cookies, authorization, body, user
    pc,       \* where the request is: idle, dispatch, error, hung, done
    err,      \* the value handed to next(err), waiting for errorMiddleware
    res,      \* the responses written for the current request, in order
    last,     \* what the last stage that ran did (its calls of next, etc.)
    first,    \* the first guard of the current chain
    depth,    \* how many guards of the chain have run
    store,    \* the rate limiter's counting store: key -> hits, resetTime
    clock,    \* wall-clock time in ms
    log,      \* the requests the rate limiter counted, in the order counted
    flight    \* the requests in flight inside rateLimiting (SpecRL)

vars == <<req, pc, err, res, last, first, depth, store, clock, log, flight>>

----------------------------------------------------------------------------
(* JavaScript values *)

Undefined == [t |-> "undefined"]
Null == [t |-> "null"]
Str(s) == [t |-> "string", v |-> s]
Num(n) == [t |-> "number", v |-> n]
Bool(b) == [t |-> "boolean", v |-> b]
Arr(s) == [t |-> "array", v |-> s]

\* ToBoolean: what `!x`, `x || y` and `if (x)` test
Truthy(x) ==
    CASE x.t \in {"undefined", "null"} -> FALSE
      [] x.t = "string" -> x.v # <<>>
      [] x.t = "number" -> x.v # 0
      [] x.t = "boolean" -> x.v
      [] OTHER -> TRUE

\* o.f (and o?.f on undefined): a missing property reads as undefined
Get(o, f) == IF f \in DOMAIN o THEN o[f] ELSE Undefined

\* o.f throws a TypeError when o is undefined or null
Nullish(o) == o.t \in {"undefined", "null"}

\* an Error object thrown by the runtime or by a collaborator
Error(msg) == [t |-> "error", message |-> Str(msg)]
TypeError == Error(<<"Cannot read properties of undefined">>)

RECURSIVE Split(_)
\* String.prototype.split(" ") on a string given as chunks
Split(s) ==
    IF \A i \in 1..Len(s) : s[i] # " "
    THEN <<s>>
    ELSE LET k == CHOOSE i \in 1..Len(s) :
                      s[i] = " " /\ \A j \in 1..(i - 1) : s[j] # " "
         IN <<SubSeq(s, 1, k - 1)>> \o Split(SubSeq(s, k + 1, Len(s)))

\* parts[i], zero-based, undefined past the end
Index(parts, i) == IF i + 1 <= Len(parts) THEN Str(parts[i + 1]) ELSE Undefined

LowerChar(c) ==
    CASE c = "A" -> "a"
      [] c = "B" -> "b"
      [] c = "X" -> "x"
      [] OTHER -> c

\* String.prototype.toLowerCase
ToLowerCase(s) == [i \in 1..Len(s) |-> LowerChar(s[i])]

----------------------------------------------------------------------------
(* Collaborators: the user store, the token verifier *)

ExemptId == <<"jalaym825">>

Users ==
    { [t |-> "object", sys_id |-> 1, githubId |-> Str(<<"alice">>),
       email |-> Str(<<"a", "@", "x">>), isVerified |-> Bool(TRUE)],
      [t |-> "object", sys_id |-> 2, githubId |-> Str(<<"bob">>),
       email |-> Str(<<"B", "@", "x">>), isVerified |-> Bool(TRUE)],
      [t |-> "object", sys_id |-> 3, githubId |-> Str(ExemptId),
       email |-> Str(<<"j", "@", "x">>), isVerified |-> Bool(FALSE)] }

\* prisma.users.findUnique({where: {<field>: value}}): the record or null
FindUnique(field, value) ==
    IF \E u \in Users : u[field] = value
    THEN CHOOSE u \in Users : u[field] = value
    ELSE Null

\* the payloads of the tokens signed with the process secret
SignedPayload(token) ==
    CASE token = <<"jwt.alice">> -> [t |-> "object", id |-> Str(<<"alice">>)]
      [] token = <<"jwt.bob">> -> [t |-> "object", id |-> Str(<<"bob">>)]
      [] token = <<"jwt.exempt">> -> [t |-> "object", id |-> Str(ExemptId)]
      [] token = <<"jwt.ghost">> -> [t |-> "object", id |-> Str(<<"ghost">>)]
      [] token = <<"jwt.noid">> -> [t |-> "object", sub |-> Str(<<"alice">>)]
      [] token = <<"jwt.emptyid">> -> [t |-> "object", id |-> Str(<<>>)]
      [] OTHER -> Undefined

\* jwt.verify(token, secret) throws on a token the secret did not sign
JwtVerifyThrows(token) == SignedPayload(token) = Undefined

----------------------------------------------------------------------------
(* What one run of a stage does.  nexts: the arguments of its calls of      *)
(* next, in order (undefined for next()); sent: the responses it wrote      *)
(* itself; rejected: its promise rejected (an exception left the function); *)
(* verified: the tokens handed to jwt.verify; lookups: store lookups made.  *)

Ran(r, nexts, sent, rejected, verified, lookups) ==
    [req |-> r, nexts |-> nexts, sent |-> sent, rejected |-> rejected,
     verified |-> verified, lookups |-> lookups]

Continue(r) == Ran(r, <<Undefined>>, <<>>, FALSE, <<>>, 0)
Fail(r, d) == Ran(r, <<d>>, <<>>, FALSE, <<>>, 0)

Response(by, status, body) == [sentBy |-> by, status |-> status, body |-> body]

----------------------------------------------------------------------------
(* errorMiddleware *)

DefaultMessage == Str(<<"Something went wrong">>)

\* line 22: err.message || 'Something went wrong'
BodyMessage(e) ==
    IF Truthy(Get(e, "message")) THEN Get(e, "message") ELSE DefaultMessage

\* line 24: if (err.extraData)
HasExtraData(e) == Truthy(Get(e, "extraData"))

\* lines 21-26: the body { message, extraData? }; merge copies the value
ErrorBody(e) ==
    IF HasExtraData(e)
    THEN [t |-> "object", message |-> BodyMessage(e), extraData |-> Get(e, "extraData")]
    ELSE [t |-> "object", message |-> BodyMessage(e)]

\* mutant: a handler that defaults to 500
StatusCode_Default500(e) ==
    IF Truthy(Get(e, "statusCode")) THEN Get(e, "statusCode") ELSE Num(500)

\* lines 27-28: if (!err.statusCode) err.statusCode = 400
StatusCode(e) ==
    IF Truthy(Get(e, "statusCode")) THEN Get(e, "statusCode") ELSE Num(400)

\* new ApiError(statusCode, message, error, stack): the envelope
ApiError(statusCode, message, error, stack) ==
    [t |-> "object", statusCode |-> statusCode, message |-> message,
     error |-> error, stack |-> stack]

\* line 30
errorMiddlewareResponse(e) ==
    Response("errorMiddleware", StatusCode(e).v,
             ApiError(StatusCode(e), Get(e, "message"), ErrorBody(e), Get(e, "stack")))

----------------------------------------------------------------------------
(* verifyJWT *)

\* line 34: req.cookies?.token || req.header("Authorization")?.split(" ")[1]
HeaderToken(r) ==
    IF Nullish(r.authorization) THEN Undefined
    ELSE Index(Split(r.authorization.v), 1)

\* mutant: the header's token takes precedence over the cookie's
ExtractToken_HeaderFirst(r) ==
    IF Truthy(HeaderToken(r)) THEN HeaderToken(r)
    ELSE Get(r.cookies, "token")

ExtractToken(r) ==
    IF Truthy(Get(r.cookies, "token")) THEN Get(r.cookies, "token")
    ELSE HeaderToken(r)

Unauthenticated(msg) ==
    [t |-> "object", path |-> Str(<<"/middleware/verifyJWT">>),
     statusCode |-> Num(401), message |-> Str(<<msg>>)]

\* line 52: if (!payload.id)
PayloadHasNoId(payload) == ~Truthy(Get(payload, "id"))

\* mutant: the lookup's answer is not tested
UserMissing_Never(user) == FALSE

\* line 63: if (!user)
UserMissing(user) == ~Truthy(user)

\* lines 33-74; dbThrows: prisma.users.findUnique rejects with dbError
verifyJWTRun(r, dbThrows, dbError) ==
    LET token == ExtractToken(r) IN
    IF ~Truthy(token)
    THEN Fail(r, Unauthenticated("No token provided"))
    ELSE IF JwtVerifyThrows(token.v)
    THEN Ran(r, <<Unauthenticated("Invalid token")>>, <<>>, FALSE, <<token.v>>, 0)
    ELSE LET payload == SignedPayload(token.v) IN
    IF PayloadHasNoId(payload)
    THEN Ran(r, <<Unauthenticated("Invalid token")>>, <<>>, FALSE, <<token.v>>, 0)
    ELSE IF dbThrows
    THEN Ran(r, << [t |-> "object", path |-> Str(<<"/middleware/verifyJWT">>),
                    statusCode |-> Num(500), message |-> Get(dbError, "message"),
                    extraData |-> dbError] >>,
             <<>>, FALSE, <<token.v>>, 1)
    ELSE LET user == FindUnique("githubId", Get(payload, "id")) IN
    IF UserMissing(user)
    THEN Ran(r, <<Unauthenticated("User not found")>>, <<>>, FALSE, <<token.v>>, 1)
    ELSE Ran([r EXCEPT !.user = user], <<Undefined>>, <<>>, FALSE, <<token.v>>, 1)

----------------------------------------------------------------------------
(* isUser *)

\* lines 87-89: res.status(400).json({ error: "User not found" })
UserNotFoundResponse ==
    Response("isUser", 400, [t |-> "object", error |-> Str(<<"User not found">>)])

\* lines 94-97: the catch block
isUserCatch(r, error) ==
    Fail(r, [t |-> "object", status |-> Num(400),
             message |-> Get(error, "message"), extraData |-> error])

\* mutant: the lookup's answer is not tested
EmailUnknown_Never(user) == FALSE

\* line 84: if (!user)
EmailUnknown(user) == ~Truthy(user)

\* lines 76-98; dbThrows: prisma.users.findUnique rejects with dbError
isUserRun(r, dbThrows, dbError) ==
    IF Nullish(r.body) \/ Get(r.body, "email").t # "string"
    THEN isUserCatch(r, TypeError)
    ELSE IF dbThrows
    THEN [isUserCatch(r, dbError) EXCEPT !.lookups = 1]
    ELSE LET user == FindUnique("email", Str(ToLowerCase(Get(r.body, "email").v))) IN
    IF EmailUnknown(user)
    THEN Ran(r, <<>>, <<UserNotFoundResponse>>, FALSE, <<>>, 1)
    ELSE Ran([r EXCEPT !.user = user], <<Undefined>>, <<>>, FALSE, <<>>, 1)

----------------------------------------------------------------------------
(* isVerified *)

\* lines 109-111 and 128-130: the catch block of isVerified and of
\* verificationMailSent
InternalCatch(r, error) ==
    Fail(r, [t |-> "object", status |-> Num(500),
             message |-> Get(error, "message"), extraData |-> error])

\* line 103: req.user.isVerified === false
NotVerified(user) == Get(user, "isVerified") = Bool(FALSE)

\* lines 100-112
isVerifiedRun(r) ==
    IF Nullish(r.user)
    THEN InternalCatch(r, TypeError)
    ELSE IF NotVerified(r.user)
    THEN Fail(r, [t |-> "object", path |-> Str(<<"/middleware/isVerified">>),
                  statusCode |-> Num(400), message |-> Str(<<"User is not verified">>)])
    ELSE Continue(r)

----------------------------------------------------------------------------
(* verificationMailSent *)

\* Date.prototype.getMinutes / getSeconds of new Date(ms) in a zone that is
\* tz minutes east of UTC
GetMinutes(ms, tz) == ((ms + tz * 60000) \div 60000) % 60
GetSeconds(ms) == (ms \div 1000) % 60

\* line 125: the template literal
LeftTimeText(ms, tz) ==
    IF GetMinutes(ms, tz) # 0
    THEN <<ToString(GetMinutes(ms, tz)), ":", ToString(GetSeconds(ms)), " minutes">>
    ELSE <<ToString(GetSeconds(ms)), " seconds">>

AlreadySentPrefix == <<"Verification mail already sent, you can resend it after ">>

\* line 121: tokenData && tokenData.expiresAt > new Date()
MailPending(tokenData, now) == Truthy(tokenData) /\ tokenData.expiresAt > now

\* lines 114-131.  tokenData: what verificationTokens.findUnique resolves to
\* (a record of this user, or null); dbThrows: it rejects with dbError; now:
\* the reading of new Date(); later: the reading of Date.now() after it.
verificationMailSentRun(r, tokenData, dbThrows, dbError, now, later, tz) ==
    IF Nullish(r.user)
    THEN InternalCatch(r, TypeError)
    ELSE IF dbThrows
    THEN [InternalCatch(r, dbError) EXCEPT !.lookups = 1]
    ELSE IF MailPending(tokenData, now)
    THEN Ran(r, << [t |-> "object", path |-> Str(<<"/middleWare/verificationMailSent">>),
                    statusCode |-> Num(400),
                    message |-> Str(AlreadySentPrefix
                                    \o LeftTimeText(tokenData.expiresAt - later, tz))] >>,
             <<>>, FALSE, <<>>, 1)
    ELSE Ran(r, <<Undefined>>, <<>>, FALSE, <<>>, 1)

----------------------------------------------------------------------------
(* validateSchema *)

\* line 15: err.errors[0].message throws when err has no errors list or an
\* empty one
CatchThrows(e) ==
    \/ Get(e, "errors").t # "array"
    \/ Get(e, "errors").v = <<>>

\* line 15
ValidationFailure(r, e) ==
    [t |-> "object", path |-> Str(r.originalUrl.v \o <<"/middleware/validate">>),
     status |-> Num(422), message |-> Get(Get(e, "errors").v[1], "message"),
     extraData |-> Get(e, "errors")]

\* lines 8-17.  parse: what schema.parseAsync(req.body) settles to
validateSchemaRun(r, parse) ==
    IF parse.ok
    THEN Continue([r EXCEPT !.body = parse.value])
    ELSE IF CatchThrows(parse.error)
    THEN Ran(r, <<>>, <<>>, TRUE, <<>>, 0)
    ELSE Fail(r, ValidationFailure(r, parse.error))

----------------------------------------------------------------------------
(* rateLimiting: the middleware rateLimit(options) builds from lines        *)
(* 133-147.  It asks skip, then keyGenerator, then increments the key's     *)
(* counter in its store, and answers itself once the count passes max.      *)

\* line 134
windowMs == 2 * 60 * 1000

\* mutant: a limit of three
max_Three == 2 + 1

\* line 135
max == 2

\* lines 136-140
TooManyRequests ==
    [t |-> "object", path |-> Str(<<"/middleWare/rateLimitExceeded">>),
     statusCode |-> Num(429),
     message |-> Str(<<"Too many requests from this user, please try again after 2 minutes.">>)]

\* line 141
keyGenerator(r) == Get(r.user, "githubId")

\* lines 144-146
skip(r) == Get(r.user, "githubId") = Str(ExemptId)

Keys == {u.githubId.v : u \in Users}

EmptyStore == [k \in Keys |-> [hits |-> 0, resetTime |-> 0]]

\* the store's increment: one atomic read-modify-write of the key's counter,
\* which starts a new window of windowMs when the key has none running
Increment(s, key, now) ==
    IF s[key].hits = 0 \/ s[key].resetTime <= now
    THEN [s EXCEPT ![key] = [hits |-> 1, resetTime |-> now + windowMs]]
    ELSE [s EXCEPT ![key].hits = @ + 1]

\* the count at which the middleware stops letting requests through
Limited(totalHits) == totalHits > max

\* the limiter's own answer: the response status 429 with options.message as
\* the body, written by the middleware itself
LimitedResponse == Response("rateLimiting", 429, TooManyRequests)

\* one whole run of the middleware on request r with the store s at time now:
\* what it did, and the store it leaves
rateLimitingRun(r, s, now) ==
    IF Nullish(r.user)
    THEN [out |-> Fail(r, TypeError), store |-> s, counted |-> <<>>]
    ELSE IF skip(r)
    THEN [out |-> Continue(r), store |-> s, counted |-> <<>>]
    ELSE LET key == keyGenerator(r).v
             s2 == Increment(s, key, now)
         IN IF Limited(s2[key].hits)
            THEN [out |-> Ran(r, <<>>, <<LimitedResponse>>, FALSE, <<>>, 0), store |-> s2,
                  counted |-> <<[key |-> key, at |-> now, passed |-> FALSE]>>]
            ELSE [out |-> Continue(r), store |-> s2,
                  counted |-> <<[key |-> key, at |-> now, passed |-> TRUE]>>]

----------------------------------------------------------------------------
(* The inputs *)

MaxChain == 3
MaxHits == 3

CookieJars ==
    { Undefined,
      [t |-> "object"],
      [t |-> "object", token |-> Str(<<>>)],
      [t |-> "object", token |-> Str(<<"jwt.alice">>)],
      [t |-> "object", token |-> Str(<<"jwt.forged">>)] }

AuthHeaders ==
    { Undefined, Str(<<"Bearer">>), Str(<<"Bearer", " ", " ", "jwt.exempt">>) }
    \cup { Str(<<"Bearer", " ", tok>>) :
             tok \in {"jwt.exempt", "jwt.ghost", "jwt.noid", "jwt.emptyid"} }

Bodies ==
    { Undefined,
      [t |-> "object"],
      [t |-> "object", email |-> Str(<<"A", "@", "X">>)],
      [t |-> "object", email |-> Str(<<"j", "@", "x">>), name |-> Str(<<"Jay">>)],
      [t |-> "object", email |-> Str(<<"B", "@", "x">>), name |-> Str(<<"Bob">>)] }

\* a token in the cookie alone, in the header alone, in neither, in both
Credentials ==
    { <<c, Undefined>> : c \in CookieJars }
    \cup { <<[t |-> "object"], a>> : a \in AuthHeaders }
    \cup { <<c, Str(<<"Bearer", " ", "jwt.exempt">>)>> : c \in CookieJars }

Requests ==
    { [cookies |-> ca[1], authorization |-> ca[2], body |-> b, user |-> Undefined,
       originalUrl |-> Str(<<"/api/v1/auth">>)] :
        ca \in Credentials, b \in Bodies }

\* what the store rejects with when it is unreachable
DbErrors == { Error(<<"Can't reach database server">>) }

\* the issues of a schema { email: string (lower-cased), name: string }
Issue(msg) == [t |-> "object", message |-> Str(<<msg>>)]
Issues(body) ==
    IF Nullish(body) THEN <<Issue("Required")>>
    ELSE (IF Get(body, "email").t = "string" THEN <<>> ELSE <<Issue("email is required")>>)
         \o (IF Get(body, "name").t = "string" THEN <<>> ELSE <<Issue("name is required")>>)

ZodError(issues) == [t |-> "error", message |-> Str(<<"validation failed">>), errors |-> Arr(issues)]

\* schema.parseAsync(body): the parsed value, or a rejection: the schema's
\* error with its issues, or whatever an asynchronous refinement threw
ParseOutcomes(body) ==
    { IF Issues(body) = <<>>
      THEN [ok |-> TRUE,
            value |-> [t |-> "object", email |-> Str(ToLowerCase(body.email.v)),
                       name |-> body.name]]
      ELSE [ok |-> FALSE, error |-> ZodError(Issues(body))] }
    \cup { [ok |-> FALSE, error |-> e] : e \in DbErrors }

\* the verification-token record of a user, read at time now
ExpiryDeltas == { 0, 1, 30000, 90000, 3600000 }
TokenRecords(user, now) ==
    { Null }
    \cup { [t |-> "object", userId |-> user.sys_id, expiresAt |-> now + d] : d \in ExpiryDeltas }

\* minutes east of UTC of the zones the process may run in
ZoneOffsets == { 0, 330 }

\* what a route handler passes to next when it fails
HandlerErrors ==
    { [t |-> "object", statusCode |-> Num(404), message |-> Str(<<"Not found">>)],
      [t |-> "error", message |-> Str(<<>>), stack |-> Str(<<"Error", " ", "at handler">>)],
      [t |-> "object", statusCode |-> Num(409), message |-> Str(<<"Conflict">>),
       extraData |-> Num(0)],
      [t |-> "object", statusCode |-> Num(403), message |-> Str(<<"Forbidden">>),
       extraData |-> Arr(<<>>)] }

----------------------------------------------------------------------------
(* The pipeline: one request at a time through a chain of guards *)

NoStage ==
    [guard |-> "none", nexts |-> <<>>, sent |-> <<>>, rejected |-> FALSE,
     verified |-> <<>>, lookups |-> 0, entry |-> Undefined, io |-> <<>>]

NoRequest ==
    [cookies |-> Undefined, authorization |-> Undefined, body |-> Undefined,
     user |-> Undefined, originalUrl |-> Str(<<>>)]

NoFlight == [pc |-> "free", user |-> Undefined, sent |-> <<>>]
MaxInFlight == 2
MaxCounted == 4
MaxTicks == 2
TickMs == 60 * 1000

Init ==
    /\ req = NoRequest
    /\ pc = "idle"
    /\ err = Undefined
    /\ res = <<>>
    /\ last = NoStage
    /\ first = "none"
    /\ depth = 0
    /\ store = EmptyStore
    /\ clock = 0
    /\ log = <<>>
    /\ flight = [i \in 1..MaxInFlight |-> NoFlight]

\* the framework creates the context of an inbound request
NewRequest ==
    /\ pc = "idle"
    /\ req' \in Requests
    /\ pc' = "dispatch"
    /\ UNCHANGED <<err, res, last, first, depth, store, clock, log, flight>>

\* the request is over (answered, or abandoned by a stage) and its context
\* is discarded
Discard ==
    /\ pc \in {"done", "hung"}
    /\ req' = NoRequest
    /\ pc' = "idle"
    /\ err' = Undefined
    /\ res' = <<>>
    /\ last' = NoStage
    /\ first' = "none"
    /\ depth' = 0
    /\ UNCHANGED <<store, clock, log, flight>>

\* where the framework goes after a stage: on to the next stage after next(),
\* to the error handler after next(err); a stage that answered itself ends
\* the request; one that did none of these leaves it hanging
After(out) ==
    IF out.sent # <<>> THEN "done"
    ELSE IF out.rejected \/ out.nexts = <<>> THEN "hung"
    ELSE IF Head(out.nexts) = Undefined THEN "dispatch"
    ELSE "error"

\* guard `name` runs on the request and does `out`; io: what its
\* collaborators gave it
Stage(name, out, io) ==
    /\ pc = "dispatch"
    /\ depth < MaxChain
    /\ req' = out.req
    /\ last' = [guard |-> name, nexts |-> out.nexts, sent |-> out.sent,
                rejected |-> out.rejected, verified |-> out.verified,
                lookups |-> out.lookups, entry |-> req, io |-> io]
    /\ res' = res \o out.sent
    /\ pc' = After(out)
    /\ err' = IF After(out) = "error" THEN Head(out.nexts) ELSE Undefined
    /\ first' = IF depth = 0 THEN name ELSE first
    /\ depth' = depth + 1
    /\ UNCHANGED <<clock, flight>>

verifyJWT ==
    /\ \E dbThrows \in BOOLEAN, e \in DbErrors :
           Stage("verifyJWT", verifyJWTRun(req, dbThrows, e), <<>>)
    /\ UNCHANGED <<store, log>>

isUser ==
    /\ \E dbThrows \in BOOLEAN, e \in DbErrors :
           Stage("isUser", isUserRun(req, dbThrows, e), <<>>)
    /\ UNCHANGED <<store, log>>

isVerified ==
    /\ Stage("isVerified", isVerifiedRun(req), <<>>)
    /\ UNCHANGED <<store, log>>

verificationMailSent ==
    /\ \E dbThrows \in BOOLEAN, e \in DbErrors, later \in {clock, clock + 1},
          tz \in ZoneOffsets :
         \E tokenData \in (IF Nullish(req.user) THEN {Null} ELSE TokenRecords(req.user, clock)) :
           Stage("verificationMailSent",
                 verificationMailSentRun(req, tokenData, dbThrows, e, clock, later, tz),
                 [tokenData |-> tokenData, now |-> clock, later |-> later, tz |-> tz])
    /\ UNCHANGED <<store, log>>

validateSchema ==
    /\ \E parse \in ParseOutcomes(req.body) :
           Stage("validateSchema", validateSchemaRun(req, parse), [parse |-> parse])
    /\ UNCHANGED <<store, log>>

rateLimiting ==
    /\ IF Nullish(req.user) THEN TRUE ELSE store[keyGenerator(req).v].hits < MaxHits
    /\ Stage("rateLimiting", rateLimitingRun(req, store, clock).out, <<>>)
    /\ store' = rateLimitingRun(req, store, clock).store
    /\ log' = log \o rateLimitingRun(req, store, clock).counted

\* the route's own handler, after the guards: it answers, or fails with next(err)
routeHandler ==
    /\ pc = "dispatch"
    /\ \E ok \in BOOLEAN, e \in HandlerErrors :
         LET out == IF ok
                    THEN Ran(req, <<>>, <<Response("handler", 200, [t |-> "object"])>>,
                             FALSE, <<>>, 0)
                    ELSE Fail(req, e)
         IN /\ last' = [guard |-> "handler", nexts |-> out.nexts, sent |-> out.sent,
                        rejected |-> FALSE, verified |-> <<>>, lookups |-> 0,
                        entry |-> req, io |-> <<>>]
            /\ res' = res \o out.sent
            /\ pc' = After(out)
            /\ err' = IF After(out) = "error" THEN Head(out.nexts) ELSE Undefined
    /\ UNCHANGED <<req, first, depth, store, clock, log, flight>>

\* lines 19-31
errorMiddleware ==
    /\ pc = "error"
    /\ res' = Append(res, errorMiddlewareResponse(err))
    /\ err' = [f \in DOMAIN err \cup {"statusCode"} |->
                 IF f = "statusCode" THEN StatusCode(err) ELSE err[f]]
    /\ pc' = "done"
    /\ UNCHANGED <<req, last, first, depth, store, clock, log, flight>>

Next ==
    \/ NewRequest
    \/ Discard
    \/ verifyJWT
    \/ isUser
    \/ isVerified
    \/ verificationMailSent
    \/ validateSchema
    \/ rateLimiting
    \/ routeHandler
    \/ errorMiddleware

Spec == Init /\ [][Next]_vars

----------------------------------------------------------------------------
(* Concurrent requests inside rateLimiting.  The middleware calls skip as   *)
(* it is entered and awaits its answer, and then the store's increment, so  *)
(* the requests in flight interleave between the two; time passes between   *)
(* any two steps.                                                           *)

pipeline == <<req, pc, err, res, last, first, depth>>

\* a request whose req.user is u enters the guard, which asks skip: an
\* exempt request goes on with next() and is not counted
Enter(i) ==
    /\ flight[i].pc = "free"
    /\ \E u \in Users :
         flight' = [flight EXCEPT ![i] =
                      [pc |-> IF skip([user |-> u]) THEN "passed" ELSE "keyed",
                       user |-> u, sent |-> <<>>]]
    /\ UNCHANGED <<pipeline, store, clock, log>>

\* the key's counter is incremented and the request goes on or is answered
Count(i) ==
    /\ flight[i].pc = "keyed"
    /\ Len(log) < MaxCounted
    /\ LET ran == rateLimitingRun(flight[i], store, clock) IN
         /\ store' = ran.store
         /\ log' = log \o ran.counted
         /\ flight' = [flight EXCEPT ![i].pc = IF ran.out.sent = <<>> THEN "passed" ELSE "limited",
                                     ![i].sent = ran.out.sent]
    /\ UNCHANGED <<pipeline, clock>>

\* the request leaves the guard
Leave(i) ==
    /\ flight[i].pc \in {"passed", "limited"}
    /\ flight' = [flight EXCEPT ![i] = NoFlight]
    /\ UNCHANGED <<pipeline, store, clock, log>>

\* time passes
Tick ==
    /\ clock < MaxTicks * TickMs
    /\ clock' = clock + TickMs
    /\ UNCHANGED <<pipeline, store, log, flight>>

NextRL ==
    \/ \E i \in 1..MaxInFlight : Enter(i)
    \/ \E i \in 1..MaxInFlight : Count(i)
    \/ \E i \in 1..MaxInFlight : Leave(i)
    \/ Tick

SpecRL == Init /\ [][NextRL]_vars

----------------------------------------------------------------------------
(* Properties *)

Guards == {"validateSchema", "verifyJWT", "isUser", "isVerified", "verificationMailSent"}

\* the stage that ran last handed d to next and errorMiddleware answered
Answered == pc = "done" /\ Len(last.nexts) = 1 /\ Truthy(last.nexts[1])
                /\ Len(res) = 1 /\ res[1].sentBy = "errorMiddleware"

\* the stage that ran last caught an exception: its descriptor carries it
Caught == Len(last.nexts) = 1 /\ Get(last.nexts[1], "extraData").t = "error"

\* C1: a body that fails validation is answered with status 422, the first
\* validation error's message and the full list of validation errors;
\* a body that passes replaces request.body and the chain goes on with next().
C1_SchemaFailureIs422 ==
    last.guard = "validateSchema" =>
        LET parse == last.io.parse IN
        /\ (~parse.ok /\ Get(parse.error, "errors").t = "array" /\ Answered) =>
              /\ res[1].status = 422
              /\ res[1].body.error.message = parse.error.errors.v[1].message
              /\ res[1].body.error.extraData = parse.error.errors
        /\ parse.ok =>
              /\ req.body = parse.value
              /\ last.nexts = <<Undefined>>

\* C2: an exception inside isVerified or verificationMailSent is answered
\* with status 500.
C2_ExceptionIs500 ==
    (last.guard \in {"isVerified", "verificationMailSent"} /\ Caught /\ Answered)
        => res[1].status = 500

\* C3: every run of a guard ends in exactly one of next(), next(descriptor)
\* or a response of its own, whatever its collaborators threw.
C3_ExactlyOneOutcome ==
    last.guard \in Guards =>
        /\ ~last.rejected
        /\ Len(last.nexts) + Len(last.sent) = 1

\* C5: every failure response comes from errorMiddleware, but for the 400
\* 'User not found' that isUser writes itself.
C5_SingleSink ==
    \A i \in 1..Len(res) :
        res[i].status >= 400 =>
            \/ res[i].sentBy = "errorMiddleware"
            \/ /\ res[i].sentBy = "isUser"
               /\ res[i].status = 400
               /\ res[i].body = [t |-> "object", error |-> Str(<<"User not found">>)]

\* a 401 of verifyJWT with the given message
Is401(d, msg) ==
    /\ Get(d, "statusCode") = Num(401)
    /\ Get(d, "message") = Str(<<msg>>)

\* the token a request carries in its cookie / as the second word of its
\* Authorization header, when it carries a non-empty one there
CookieToken(r) == Get(r.cookies, "token")
BearerToken(r) ==
    IF Nullish(r.authorization) \/ Len(Split(r.authorization.v)) < 2
    THEN Undefined
    ELSE Str(Split(r.authorization.v)[2])
Present(tok) == tok.t = "string" /\ tok.v # <<>>

\* a payload without a usable id claim: none, or an empty one
NoIdClaim(payload) == "id" \notin DOMAIN payload \/ payload.id = Str(<<>>)

\* C6: verifyJWT fails with 401 in exactly three cases, decided in this order:
\* no token in the cookie nor in the header ('No token provided', nothing is
\* verified or looked up); the token does not verify or its payload has no
\* id claim ('Invalid token', nothing is looked up); no user has the id claim
\* as githubId ('User not found').  In none of them is a user attached or
\* next() called.  The cookie's token is the one verified when both are there.
C6_VerifyJWT401 ==
    last.guard = "verifyJWT" =>
        LET r == last.entry
            d == last.nexts[1]
            tok == IF Present(CookieToken(r)) THEN CookieToken(r) ELSE BearerToken(r)
            noToken == ~Present(CookieToken(r)) /\ ~Present(BearerToken(r))
            invalid == ~noToken /\ (JwtVerifyThrows(tok.v) \/ NoIdClaim(SignedPayload(tok.v)))
            unknown == /\ ~noToken /\ ~invalid
                       /\ \A u \in Users : u.githubId # SignedPayload(tok.v).id
            is401 == Get(d, "statusCode") = Num(401)
        IN /\ Len(last.nexts) = 1 /\ last.sent = <<>>
           /\ noToken => Is401(d, "No token provided") /\ last.verified = <<>>
                           /\ last.lookups = 0
           /\ invalid => Is401(d, "Invalid token") /\ last.verified = <<tok.v>>
                           /\ last.lookups = 0
           /\ (unknown /\ Get(d, "statusCode") # Num(500)) => Is401(d, "User not found")
           /\ is401 => (noToken \/ invalid \/ unknown) /\ req.user = r.user
           /\ (Present(CookieToken(r)) /\ Present(BearerToken(r)))
                 => last.verified = <<CookieToken(r).v>>

\* C6's case: a request with a token in the cookie and another in the header
\* was refused for the cookie's token
C6_Witness ==
    /\ last.guard = "verifyJWT"
    /\ Present(CookieToken(last.entry)) /\ Present(BearerToken(last.entry))
    /\ CookieToken(last.entry) # BearerToken(last.entry)
    /\ Is401(last.nexts[1], "Invalid token")

\* C7: in a chain that starts with verifyJWT, when verifyJWT goes on with
\* next(), request.user is the user whose githubId is the token's id claim,
\* and request.user is non-null where every later guard of the chain starts.
C7_UserAttached ==
    /\ (last.guard = "verifyJWT" /\ last.nexts = <<Undefined>>) =>
          /\ req.user \in Users
          /\ req.user.githubId = SignedPayload(last.verified[1]).id
    /\ (first = "verifyJWT" /\ depth >= 1 /\ pc = "dispatch") => ~Nullish(req.user)
    /\ (first = "verifyJWT" /\ depth >= 2) => ~Nullish(last.entry.user)

\* C7's case: a guard after verifyJWT replaced the user and a third guard is
\* about to start
C7_Witness ==
    /\ first = "verifyJWT" /\ depth = 2 /\ pc = "dispatch"
    /\ last.guard = "isUser" /\ req.user # last.entry.user

\* C8: isUser, once the lookup by the lower-cased email has answered: no
\* user has that email -> it writes 400 'User not found' itself, calls next
\* in no form and leaves request.user alone; a user has it -> it attaches
\* that user, calls next() and writes nothing.
C8_IsUser ==
    (last.guard = "isUser" /\ last.lookups = 1 /\ ~Caught) =>
        LET email == Str(ToLowerCase(last.entry.body.email.v)) IN
        /\ (\A u \in Users : u.email # email) =>
              /\ last.sent = <<Response("isUser", 400,
                                        [t |-> "object", error |-> Str(<<"User not found">>)])>>
              /\ last.nexts = <<>>
              /\ req.user = last.entry.user
        /\ (\E u \in Users : u.email = email) =>
              /\ req.user \in Users /\ req.user.email = email
              /\ last.nexts = <<Undefined>>
              /\ last.sent = <<>>

\* C8's case: an email in upper case found its user, who replaces the one
\* verifyJWT attached
C8_Witness ==
    /\ last.guard = "isUser" /\ last.nexts = <<Undefined>>
    /\ last.entry.body.email.v # ToLowerCase(last.entry.body.email.v)
    /\ ~Nullish(last.entry.user) /\ req.user # last.entry.user

\* the remaining time d ms as the text the message should carry
Remaining(d) ==
    IF d \div 60000 # 0
    THEN <<ToString(d \div 60000), ":", ToString((d \div 1000) % 60), " minutes">>
    ELSE <<ToString((d \div 1000) % 60), " seconds">>

\* C9: verificationMailSent blocks (400) exactly when a token record exists
\* whose expiresAt is later than now, and goes on with next() otherwise; the
\* message carries the remaining time d = expiresAt - now, as 'M:S minutes'
\* or 'S seconds', for every d > 0.
C9_Cooldown ==
    (last.guard = "verificationMailSent" /\ last.lookups = 1 /\ ~Caught) =>
        LET tokenData == last.io.tokenData
            pending == tokenData # Null /\ tokenData.expiresAt > last.io.now
            d == tokenData.expiresAt - last.io.later
        IN /\ pending <=> Get(last.nexts[1], "statusCode") = Num(400)
           /\ ~pending <=> last.nexts = <<Undefined>>
           /\ (pending /\ d > 0) =>
                 last.nexts[1].message = Str(AlreadySentPrefix \o Remaining(d))

\* C10 as claimed: one response; its status is the descriptor's statusCode,
\* or 400 without one; the body's message is the descriptor's; an extraData
\* the descriptor carries is in the body unmodified.
C10_AsClaimed ==
    Answered =>
        LET d == last.nexts[1] IN
        /\ res[1].status = (IF "statusCode" \in DOMAIN d THEN d.statusCode.v ELSE 400)
        /\ "message" \in DOMAIN d => res[1].body.error.message = d.message
        /\ "extraData" \in DOMAIN d =>
              /\ "extraData" \in DOMAIN res[1].body.error
              /\ res[1].body.error.extraData = d.extraData

\* C10 as the code has it: one response; its status is the descriptor's
\* statusCode, or 400 without one; the envelope's message is the descriptor's
\* and the body's message is the descriptor's, or 'Something went wrong' for
\* a missing or empty one; a truthy extraData is in the body unmodified, and
\* a falsy one (0, '', false, null) is left out.
C10_ErrorMiddleware ==
    Answered =>
        LET d == last.nexts[1] IN
        /\ res[1].status = (IF "statusCode" \in DOMAIN d THEN d.statusCode.v ELSE 400)
        /\ res[1].body.message = Get(d, "message")
        /\ res[1].body.error.message =
              (IF "message" \in DOMAIN d /\ d.message # Str(<<>>)
               THEN d.message ELSE Str(<<"Something went wrong">>))
        /\ ("extraData" \in DOMAIN d /\ d.extraData \notin {Num(0), Str(<<>>), Bool(FALSE), Null})
              => /\ "extraData" \in DOMAIN res[1].body.error
                 /\ res[1].body.error.extraData = d.extraData
        /\ ("extraData" \in DOMAIN d /\ d.extraData \in {Num(0), Str(<<>>), Bool(FALSE), Null})
              => "extraData" \notin DOMAIN res[1].body.error

\* C10's case: a descriptor without statusCode and with extraData was answered
C10_Witness ==
    /\ Answered
    /\ "statusCode" \notin DOMAIN last.nexts[1]
    /\ "extraData" \in DOMAIN last.nexts[1]
    /\ res[1].status = 400

\* the requests of key k the limiter counted, in the order counted
KeyLog(k) == SelectSeq(log, LAMBDA e : e.key = k)

RECURSIVE FirstTwoPass(_, _, _)
\* whether each of the requests counted at times ts passes when, in every
\* window of 2 minutes that opens with the first request after the window
\* before it closed, the first 2 requests pass and the later ones do not;
\* start and n: the running window's start and the requests counted in it
FirstTwoPass(ts, start, n) ==
    IF ts = <<>> THEN <<>>
    ELSE LET opens == n = 0 \/ Head(ts) >= start + 120000
             n2 == IF opens THEN 1 ELSE n + 1
         IN <<n2 <= 2>> \o FirstTwoPass(Tail(ts), IF opens THEN Head(ts) ELSE start, n2)

====
